---- MODULE Spec2Model ----
(***************************************************************************)
(* A model of the unbounded multi-sender, single-receiver channel of       *)
(* src/src/lib.rs: a VecDeque and a sender counter behind one Mutex, a     *)
(* Condvar, cloneable Senders and one Receiver with a private read-ahead   *)
(* buffer.                                                                 *)
(*                                                                         *)
(* The program around the channel is a set of sender threads and one       *)
(* receiver thread.  A sender thread runs one operation at a time on some  *)
(* Sender handle: send, clone or drop.  All handles hold the same Arc and  *)
(* nothing else, so an operation does the same whatever handle it runs on, *)
(* and the model keeps the number of handles, not their names.             *)
(*                                                                         *)
(* A step of the model is one step of one thread: a call, a lock           *)
(* acquisition, the work done inside the critical section up to the        *)
(* release of the guard, a notify, a return.  The Receiver's critical      *)
(* section is split further (pop, swap, return) because its local `value`  *)
(* is neither in the queue nor in the buffer between the pop and the       *)
(* return.                                                                 *)
(*                                                                         *)
(* An Option<T> is modelled as a sequence of length at most one: None is   *)
(* <<>> and Some(v) is <<v>>.  T is unconstrained in the code, which can   *)
(* only move a value; the model names the k-th value pushed k.             *)
(***************************************************************************)
EXTENDS Integers, Sequences, FiniteSets

\* ---------------------------------------------------------------- bounds

\* Threads that run Sender operations.
MaxThreads == 2
\* Sender handles in existence at one time (the original and its clones).
MaxHandles == 3
\* Calls of send over the life of the channel.
MaxSends == 3
\* End-of-stream results the Receiver asks for before it stops calling recv.
MaxEos == 2
\* Sender handles created over the life of an audited channel.
MaxCreated == 3

Threads == 1..MaxThreads

\* ------------------------------------------------------------- Option<T>

None == <<>>
Some(v) == <<v>>

\* ---------------------------------------------------------------- state

VARIABLES
    queue,      \* Shared.queue
    senders,    \* Shared.senders
    lock,       \* the owner of the Mutex Inner.shared
    buffer,     \* Receiver.buffer
    rpc,        \* where the Receiver's thread is
    value,      \* the local `value` of recv, an Option
    handles,    \* the number of Sender handles that exist
    tpc,        \* where each sender thread is
    is_last,    \* the local `is_last` of the drop a thread runs
    sent,       \* history: the values pushed, in the order of the pushes
    received,   \* history: the results recv returned, in order (Options)
    rxDropSent, \* history: Some(number of pushes made when the Receiver was dropped)
    notifies,   \* history: the calls of notify_one made so far, by send and by drop
    audit       \* histories, kept when named in audit.on: the thread that made
                \* each push, the number of Sender handles ever created

vars == <<queue, senders, lock, buffer, rpc, value, handles, tpc, is_last,
          sent, received, rxDropSent, notifies, audit>>

\* The owners of the mutex.
Unlocked == <<>>
RxThread == <<"rx">>
TxThread(t) == <<"tx", t>>
\* A thread panicked while it held the guard: every later lock().unwrap()
\* panics, so no thread enters a critical section again.
Poisoned == <<"poisoned">>

\* ------------------------------------------------------ usize arithmetic

\* usize::MAX.  TLC's integers are narrower than usize, so the largest of them
\* stands for it.
USIZE_MAX == 2147483647

\* `senders += 1` and `senders -= 1` on a usize.  Out of range, the build
\* decides: with overflow checks the thread panics before the store, without
\* them the value wraps.  Each outcome is <<kind, the counter afterwards>>.
add_one(n) ==
    IF n < USIZE_MAX THEN {<<"ok", n + 1>>}
    ELSE {<<"panic", n>>, <<"wrap", 0>>}

sub_one(n) ==
    IF n > 0 THEN {<<"ok", n - 1>>}
    ELSE {<<"panic", n>>, <<"wrap", USIZE_MAX>>}

\* ------------------------------------------------------ VecDeque operations

\* A faulty variant of push_back: the value goes to the front.
push_front(q, v) == <<v>> \o q

push_back(q, v) == Append(q, v)

\* pop_front: the Option returned and the deque left.
pop_front_value(q) == IF q = <<>> THEN None ELSE Some(Head(q))
pop_front_rest(q) == IF q = <<>> THEN <<>> ELSE Tail(q)

\* A faulty variant of swap: nothing is exchanged.
swap_nothing(b, q) == <<b, q>>

\* A faulty variant of swap: the queue is copied into the buffer and left as it is.
swap_copy(b, q) == <<q, q>>

\* std::mem::swap(&mut self.buffer, &mut shared.queue): the pair
\* <<buffer, queue>> after the swap.
swap(b, q) == <<q, b>>

\* Condvar::notify_one: a thread parked in wait is made runnable (it still has
\* to take the mutex again); with no thread parked the notification is lost.
notify_one(pc) == IF pc = "parked" THEN "woken" ELSE pc

\* ------------------------------------------------------------ construction

\* channel(): one Sender, one Receiver, an empty queue and an empty buffer.
channel ==
    /\ queue = <<>>
    /\ senders = 1
    /\ lock = Unlocked
    /\ buffer = <<>>
    /\ rpc = "idle"
    /\ value = None
    /\ handles = 1
    /\ tpc = [t \in Threads |-> "idle"]
    /\ is_last = [t \in Threads |-> FALSE]
    /\ sent = <<>>
    /\ received = <<>>
    /\ rxDropSent = None
    /\ notifies = [send |-> 0, drop |-> 0]

\* An audit history is kept by the specifications that start with its name
\* in audit.on; the others leave it as it is at the start.
Audit(on) == [on |-> on, pusher |-> <<>>, created |-> 1]

Init ==
    /\ channel
    /\ audit = Audit({})

\* The thread that makes a push, and a handle that comes into existence, as
\* the audit records them.
RecordPush(t) ==
    IF "pusher" \in audit.on THEN [audit EXCEPT !.pusher = Append(@, t)]
                              ELSE audit

RecordHandle ==
    IF "created" \in audit.on THEN [audit EXCEPT !.created = @ + 1]
                               ELSE audit

\* ------------------------------------------------------------ Mutex::lock

\* A faulty variant of Acquire: the caller takes the mutex whoever holds it.
AcquireBarging(t) == lock' = t

\* lock(): blocks until the mutex is free, then owns it.
Acquire(t) ==
    /\ lock = Unlocked
    /\ lock' = t

\* ------------------------------------------------------- the sender threads

\* send and clone borrow the handle they are called on until they return.
Borrowing(t) ==
    tpc[t] \in {"send_lock", "send_locked", "send_notify", "clone_locked", "clone_ret"}

\* A thread can run send or clone when a handle exists to call it on (threads
\* may share a handle by reference).
CanBorrow == handles >= 1

\* A handle can go out of scope in thread t when one exists that no other
\* thread is borrowing.
CanDrop(t) ==
    handles >= 1 + (IF \E u \in Threads \ {t} : Borrowing(u) THEN 1 ELSE 0)

\* The operation a sender thread is in.
SendInProgress(t) == tpc[t] \in {"send_lock", "send_locked", "send_notify"}
CloneInProgress(t) == tpc[t] \in {"clone_locked", "clone_ret"}
DropInProgress(t) == tpc[t] \in {"drop_locked", "drop_notify"}

\* ------------------------------------------------------------ Sender::send

\* The calls of send made so far: those that have pushed and those about to.
SendCalls ==
    Len(sent) + Cardinality({t \in Threads : tpc[t] \in {"send_lock", "send_locked"}})

\* Sender<T> and Receiver<T> put no bound on T: the code can move a value
\* and nothing else, so what it does cannot depend on which value it is.
\* The model names a value by the place of its push in the order of the
\* pushes: the k-th value pushed is k.  No two sends carry the same value,
\* and a value lost, repeated or out of place shows in the histories.
NextValue == Len(sent) + 1

\* Thread t calls send(value).
SendCall(t) ==
    /\ tpc[t] = "idle"
    /\ CanBorrow
    /\ tpc' = [tpc EXCEPT ![t] = "send_lock"]
    /\ UNCHANGED <<queue, senders, lock, buffer, rpc, value, handles, is_last,
                   sent, received, rxDropSent, notifies, audit>>

\* let mut shared = self.inner.shared.lock().unwrap();
SendLock(t) ==
    /\ tpc[t] = "send_lock"
    /\ Acquire(TxThread(t))
    /\ tpc' = [tpc EXCEPT ![t] = "send_locked"]
    /\ UNCHANGED <<queue, senders, buffer, rpc, value, handles, is_last,
                   sent, received, rxDropSent, notifies, audit>>

\* A faulty variant of SendPush: a send that finds the Receiver gone discards the value.
SendPushUnlessDisconnected(t) ==
    /\ tpc[t] = "send_locked"
    /\ lock = TxThread(t)
    /\ queue' = IF rpc = "dropped" THEN queue ELSE push_back(queue, NextValue)
    /\ sent' = Append(sent, NextValue)
    /\ lock' = Unlocked
    /\ tpc' = [tpc EXCEPT ![t] = "send_notify"]
    /\ audit' = RecordPush(t)
    /\ UNCHANGED <<senders, buffer, rpc, value, handles, is_last,
                   received, rxDropSent, notifies>>

\* shared.queue.push_back(value); drop(shared);
SendPush(t) ==
    /\ tpc[t] = "send_locked"
    /\ lock = TxThread(t)
    /\ queue' = push_back(queue, NextValue)
    /\ sent' = Append(sent, NextValue)
    /\ lock' = Unlocked
    /\ tpc' = [tpc EXCEPT ![t] = "send_notify"]
    /\ audit' = RecordPush(t)
    /\ UNCHANGED <<senders, buffer, rpc, value, handles, is_last,
                   received, rxDropSent, notifies>>

\* A faulty variant of SendNotify: send returns without notifying.
SendNoNotify(t) ==
    /\ tpc[t] = "send_notify"
    /\ tpc' = [tpc EXCEPT ![t] = "idle"]
    /\ UNCHANGED <<queue, senders, lock, buffer, rpc, value, handles, is_last,
                   sent, received, rxDropSent, notifies, audit>>

\* self.inner.available.notify_one(), and send returns.
SendNotify(t) ==
    /\ tpc[t] = "send_notify"
    /\ rpc' = notify_one(rpc)
    /\ notifies' = [notifies EXCEPT !.send = @ + 1]
    /\ tpc' = [tpc EXCEPT ![t] = "idle"]
    /\ UNCHANGED <<queue, senders, lock, buffer, value, handles, is_last,
                   sent, received, rxDropSent, audit>>

\* ------------------------------------------------------- Clone for Sender

\* Thread t calls clone():
\* let mut shared = self.inner.shared.lock().unwrap();
\* The call touches nothing shared before the lock is taken, so the call and
\* the acquisition are one step.
CloneLock(t) ==
    /\ tpc[t] = "idle"
    /\ CanBorrow
    /\ handles + Cardinality({u \in Threads : tpc[u] \in {"clone_locked", "clone_ret"}})
         < MaxHandles
    /\ Acquire(TxThread(t))
    /\ tpc' = [tpc EXCEPT ![t] = "clone_locked"]
    /\ UNCHANGED <<queue, senders, buffer, rpc, value, handles, is_last,
                   sent, received, rxDropSent, notifies, audit>>

\* A faulty variant of CloneIncrement: the counter is not incremented.
CloneNoIncrement(t) ==
    /\ tpc[t] = "clone_locked"
    /\ lock = TxThread(t)
    /\ lock' = Unlocked
    /\ tpc' = [tpc EXCEPT ![t] = "clone_ret"]
    /\ UNCHANGED <<queue, senders, buffer, rpc, value, handles, is_last,
                   sent, received, rxDropSent, notifies, audit>>

\* shared.senders += 1; drop(shared);
CloneIncrement(t) ==
    /\ tpc[t] = "clone_locked"
    /\ lock = TxThread(t)
    /\ \E o \in add_one(senders) :
          /\ senders' = o[2]
          /\ lock' = IF o[1] = "panic" THEN Poisoned ELSE Unlocked
          /\ tpc' = [tpc EXCEPT ![t] = IF o[1] = "panic" THEN "panicked"
                                                         ELSE "clone_ret"]
    /\ UNCHANGED <<queue, buffer, rpc, value, handles, is_last,
                   sent, received, rxDropSent, notifies, audit>>

\* Self { inner: Arc::clone(&self.inner) }: the new handle exists from here on.
CloneReturn(t) ==
    /\ tpc[t] = "clone_ret"
    /\ handles' = handles + 1
    /\ tpc' = [tpc EXCEPT ![t] = "idle"]
    /\ audit' = RecordHandle
    /\ UNCHANGED <<queue, senders, lock, buffer, rpc, value, is_last,
                   sent, received, rxDropSent, notifies>>

\* --------------------------------------------------------- Drop for Sender

\* A handle goes out of scope in thread t and drop(&mut self) runs:
\* let mut shared = self.inner.shared.lock().unwrap();
\* From here on no thread can use the handle.  As for clone, the call and the
\* acquisition are one step.
DropLock(t) ==
    /\ tpc[t] = "idle"
    /\ CanDrop(t)
    /\ Acquire(TxThread(t))
    /\ handles' = handles - 1
    /\ tpc' = [tpc EXCEPT ![t] = "drop_locked"]
    /\ UNCHANGED <<queue, senders, buffer, rpc, value, is_last,
                   sent, received, rxDropSent, notifies, audit>>

\* A faulty variant of DropDecrement: the counter is not decremented.
DropNoDecrement(t) ==
    /\ tpc[t] = "drop_locked"
    /\ lock = TxThread(t)
    /\ is_last' = [is_last EXCEPT ![t] = (senders = 0)]
    /\ lock' = Unlocked
    /\ tpc' = [tpc EXCEPT ![t] = "drop_notify"]
    /\ UNCHANGED <<queue, senders, buffer, rpc, value, handles,
                   sent, received, rxDropSent, notifies, audit>>

\* shared.senders -= 1; let is_last = shared.senders == 0; drop(shared);
DropDecrement(t) ==
    /\ tpc[t] = "drop_locked"
    /\ lock = TxThread(t)
    /\ \E o \in sub_one(senders) :
          /\ senders' = o[2]
          /\ is_last' = [is_last EXCEPT ![t] = (o[1] # "panic" /\ o[2] = 0)]
          /\ lock' = IF o[1] = "panic" THEN Poisoned ELSE Unlocked
          /\ tpc' = [tpc EXCEPT ![t] = IF o[1] = "panic" THEN "panicked"
                                                         ELSE "drop_notify"]
    /\ UNCHANGED <<queue, buffer, rpc, value, handles, sent, received,
                   rxDropSent, notifies, audit>>

\* A faulty variant of DropNotify: the last drop returns without notifying.
DropNoNotify(t) ==
    /\ tpc[t] = "drop_notify"
    /\ tpc' = [tpc EXCEPT ![t] = "idle"]
    /\ is_last' = [is_last EXCEPT ![t] = FALSE]
    /\ UNCHANGED <<queue, senders, lock, buffer, rpc, value, handles,
                   sent, received, rxDropSent, notifies, audit>>

\* A faulty variant of DropNotify: every drop notifies, the last or not.
DropNotifyAlways(t) ==
    /\ tpc[t] = "drop_notify"
    /\ rpc' = notify_one(rpc)
    /\ notifies' = [notifies EXCEPT !.drop = @ + 1]
    /\ tpc' = [tpc EXCEPT ![t] = "idle"]
    /\ is_last' = [is_last EXCEPT ![t] = FALSE]
    /\ UNCHANGED <<queue, senders, lock, buffer, value, handles,
                   sent, received, rxDropSent, audit>>

\* if is_last { self.inner.available.notify_one() }, and drop returns.
DropNotify(t) ==
    /\ tpc[t] = "drop_notify"
    /\ rpc' = IF is_last[t] THEN notify_one(rpc) ELSE rpc
    /\ notifies' = IF is_last[t] THEN [notifies EXCEPT !.drop = @ + 1]
                                  ELSE notifies
    /\ tpc' = [tpc EXCEPT ![t] = "idle"]
    /\ is_last' = [is_last EXCEPT ![t] = FALSE]
    /\ UNCHANGED <<queue, senders, lock, buffer, value, handles,
                   sent, received, rxDropSent, audit>>

\* ----------------------------------------------------------- Receiver::recv

\* The values among a sequence of recv results, in order.
RECURSIVE Flatten(_)
Flatten(rs) == IF rs = <<>> THEN <<>> ELSE Head(rs) \o Flatten(Tail(rs))

\* The number of end-of-stream results among a sequence of recv results.
EosCount(rs) == Len(rs) - Len(Flatten(rs))

\* A faulty variant of RecvFast: the value is taken from the back of the buffer.
RecvFastFromBack ==
    /\ rpc = "idle"
    /\ buffer # <<>>
    /\ buffer' = SubSeq(buffer, 1, Len(buffer) - 1)
    /\ received' = Append(received, Some(buffer[Len(buffer)]))
    /\ UNCHANGED <<queue, senders, lock, rpc, value, handles, tpc, is_last,
                   sent, rxDropSent, notifies, audit>>

\* A faulty variant of RecvFast: the buffer is read with the mutex taken for the time of
\* the pop.
RecvFastUnderLock ==
    /\ rpc = "idle"
    /\ lock = Unlocked
    /\ pop_front_value(buffer) # None
    /\ buffer' = pop_front_rest(buffer)
    /\ received' = Append(received, pop_front_value(buffer))
    /\ UNCHANGED <<queue, senders, lock, rpc, value, handles, tpc, is_last,
                   sent, rxDropSent, notifies, audit>>

\* if let Some(value) = self.buffer.pop_front() { return Some(value); }
\* The fast path: no lock is taken.
RecvFast ==
    /\ rpc = "idle"
    /\ pop_front_value(buffer) # None
    /\ buffer' = pop_front_rest(buffer)
    /\ received' = Append(received, pop_front_value(buffer))
    /\ UNCHANGED <<queue, senders, lock, rpc, value, handles, tpc, is_last,
                   sent, rxDropSent, notifies, audit>>

\* A call of recv that finds the buffer empty goes on to take the lock.
RecvCall ==
    /\ rpc = "idle"
    /\ EosCount(received) < MaxEos
    /\ pop_front_value(buffer) = None
    /\ rpc' = "lock"
    /\ UNCHANGED <<queue, senders, lock, buffer, value, handles, tpc, is_last,
                   sent, received, rxDropSent, notifies, audit>>

\* let mut shared = self.inner.shared.lock().unwrap();
RecvLock ==
    /\ rpc = "lock"
    /\ Acquire(RxThread)
    /\ rpc' = "loop"
    /\ UNCHANGED <<queue, senders, buffer, value, handles, tpc, is_last,
                   sent, received, rxDropSent, notifies, audit>>

\* A faulty variant of RecvPop: the value is taken from the back of the queue.
RecvPopBack ==
    /\ rpc = "loop"
    /\ lock = RxThread
    /\ queue # <<>>
    /\ value' = Some(queue[Len(queue)])
    /\ queue' = SubSeq(queue, 1, Len(queue) - 1)
    /\ rpc' = "swap"
    /\ UNCHANGED <<senders, lock, buffer, handles, tpc, is_last,
                   sent, received, rxDropSent, notifies, audit>>

\* match shared.queue.pop_front() { Some(value) => ...
RecvPop ==
    /\ rpc = "loop"
    /\ lock = RxThread
    /\ pop_front_value(queue) # None
    /\ value' = pop_front_value(queue)
    /\ queue' = pop_front_rest(queue)
    /\ rpc' = "swap"
    /\ UNCHANGED <<senders, lock, buffer, handles, tpc, is_last,
                   sent, received, rxDropSent, notifies, audit>>

\* std::mem::swap(&mut self.buffer, &mut shared.queue);
RecvSwap ==
    /\ rpc = "swap"
    /\ lock = RxThread
    /\ buffer' = swap(buffer, queue)[1]
    /\ queue' = swap(buffer, queue)[2]
    /\ rpc' = "ret_some"
    /\ UNCHANGED <<senders, lock, value, handles, tpc, is_last,
                   sent, received, rxDropSent, notifies, audit>>

\* return Some(value); the guard is dropped on the way out.
RecvReturnSome ==
    /\ rpc = "ret_some"
    /\ lock = RxThread
    /\ received' = Append(received, value)
    /\ value' = None
    /\ lock' = Unlocked
    /\ rpc' = "idle"
    /\ UNCHANGED <<queue, senders, buffer, handles, tpc, is_last, sent,
                   rxDropSent, notifies, audit>>

\* A faulty variant of RecvEos: an empty queue is end-of-stream, whatever the counter.
RecvEosIgnoringSenders ==
    /\ rpc = "loop"
    /\ lock = RxThread
    /\ pop_front_value(queue) = None
    /\ rpc' = "ret_none"
    /\ UNCHANGED <<queue, senders, lock, buffer, value, handles, tpc, is_last,
                   sent, received, rxDropSent, notifies, audit>>

\* None if shared.senders == 0 => return None,
RecvEos ==
    /\ rpc = "loop"
    /\ lock = RxThread
    /\ pop_front_value(queue) = None
    /\ senders = 0
    /\ rpc' = "ret_none"
    /\ UNCHANGED <<queue, senders, lock, buffer, value, handles, tpc, is_last,
                   sent, received, rxDropSent, notifies, audit>>

\* ... return None; the guard is dropped on the way out.
RecvReturnNone ==
    /\ rpc = "ret_none"
    /\ lock = RxThread
    /\ received' = Append(received, None)
    /\ lock' = Unlocked
    /\ rpc' = "idle"
    /\ UNCHANGED <<queue, senders, buffer, value, handles, tpc, is_last,
                   sent, rxDropSent, notifies, audit>>

\* A faulty variant of RecvWait: the thread waits on an empty queue whatever the counter.
RecvWaitIgnoringSenders ==
    /\ rpc = "loop"
    /\ lock = RxThread
    /\ pop_front_value(queue) = None
    /\ lock' = Unlocked
    /\ rpc' = "parked"
    /\ UNCHANGED <<queue, senders, buffer, value, handles, tpc, is_last,
                   sent, received, rxDropSent, notifies, audit>>

\* A faulty variant of RecvWait: the thread parks with the mutex still held.
RecvWaitHoldingLock ==
    /\ rpc = "loop"
    /\ lock = RxThread
    /\ pop_front_value(queue) = None
    /\ senders # 0
    /\ rpc' = "parked"
    /\ UNCHANGED <<queue, senders, lock, buffer, value, handles, tpc, is_last,
                   sent, received, rxDropSent, notifies, audit>>

\* None => { shared = self.inner.available.wait(shared).unwrap(); }
\* wait releases the mutex and parks the thread in one atomic step.
RecvWait ==
    /\ rpc = "loop"
    /\ lock = RxThread
    /\ pop_front_value(queue) = None
    /\ senders # 0
    /\ lock' = Unlocked
    /\ rpc' = "parked"
    /\ UNCHANGED <<queue, senders, buffer, value, handles, tpc, is_last,
                   sent, received, rxDropSent, notifies, audit>>

\* Condvar::wait may wake with no notification (a spurious wake-up).
SpuriousWake ==
    /\ rpc = "parked"
    /\ rpc' = "woken"
    /\ UNCHANGED <<queue, senders, lock, buffer, value, handles, tpc, is_last,
                   sent, received, rxDropSent, notifies, audit>>

\* wait takes the mutex again before it returns; the loop starts over.
RecvRelock ==
    /\ rpc = "woken"
    /\ Acquire(RxThread)
    /\ rpc' = "loop"
    /\ UNCHANGED <<queue, senders, buffer, value, handles, tpc, is_last,
                   sent, received, rxDropSent, notifies, audit>>

\* The Receiver goes out of scope between two calls of recv.  It has no Drop
\* of its own: its buffer is freed and the shared state is left as it is.
RecvDrop ==
    /\ rpc = "idle"
    /\ rpc' = "dropped"
    /\ buffer' = <<>>
    /\ rxDropSent' = Some(Len(sent))
    /\ UNCHANGED <<queue, senders, lock, value, handles, tpc, is_last,
                   sent, received, notifies, audit>>

\* ------------------------------------------------------------ specification

SenderStep(t) ==
    \/ SendCalls < MaxSends /\ SendCall(t)
    \/ SendLock(t)
    \/ SendPush(t)
    \/ SendNotify(t)
    \/ CloneLock(t)
    \/ CloneIncrement(t)
    \/ CloneReturn(t)
    \/ DropLock(t)
    \/ DropDecrement(t)
    \/ DropNotify(t)

ReceiverStep ==
    \/ RecvFast
    \/ RecvCall
    \/ RecvLock
    \/ RecvPop
    \/ RecvSwap
    \/ RecvReturnSome
    \/ RecvEos
    \/ RecvReturnNone
    \/ RecvWait
    \/ SpuriousWake
    \/ RecvRelock

Next ==
    \/ \E t \in Threads : SenderStep(t)
    \/ ReceiverStep
    \/ RecvDrop

Spec == Init /\ [][Next]_vars

\* ---------------------------------------------------------------- fairness

\* A thread inside an operation keeps running: the operating system schedules
\* every runnable thread again and again, and a thread that finds the mutex
\* free again and again gets it in the end.  Nothing obliges a thread to start
\* an operation, and nothing obliges a spurious wake-up to happen.
SenderProgress(t) ==
    \/ SendLock(t)
    \/ SendPush(t)
    \/ SendNotify(t)
    \/ CloneIncrement(t)
    \/ CloneReturn(t)
    \/ DropDecrement(t)
    \/ DropNotify(t)

ReceiverProgress ==
    \/ RecvLock
    \/ RecvPop
    \/ RecvSwap
    \/ RecvReturnSome
    \/ RecvEos
    \/ RecvReturnNone
    \/ RecvWait
    \/ RecvRelock

Fairness ==
    /\ \A t \in Threads : SF_vars(SenderProgress(t))
    /\ SF_vars(ReceiverProgress)

FairSpec == Spec /\ Fairness

\* The Receiver lives on and keeps calling recv.
RecvLoopNext ==
    \/ \E t \in Threads : SenderStep(t)
    \/ ReceiverStep

RecvLoopSpec ==
    /\ Init
    /\ [][RecvLoopNext]_vars
    /\ Fairness
    /\ WF_vars(RecvFast \/ RecvCall)

\* ------------------------------------------- tests::test_channel as a program

\* The values the spawned thread sends, in order.
Script == <<10, 12, 13, 14>>

\* The only sender pushes in the order of its calls: the k-th value pushed,
\* k in the model, is Script[k].  What the test's calls of recv have returned:
Returned == [i \in 1..Len(received) |->
                IF received[i] = None THEN None ELSE Some(Script[received[i][1]])]

\* What the test asserts of the five calls of recv.
Expected == <<Some(10), Some(12), Some(13), Some(14), None>>

\* tx.send(10); tx.send(12); tx.send(13); tx.send(14);
ProducerSend ==
    /\ SendCalls < Len(Script)
    /\ SendCall(1)

\* The closure ends after the last send and tx, which it owns, is dropped.
ProducerDrop ==
    /\ Len(sent) = Len(Script)
    /\ DropLock(1)

\* rx.recv(), five times.
ConsumerRecv ==
    /\ Len(received) < Len(Script) + 1
    /\ (RecvFast \/ RecvCall)

ProducerNext ==
    \/ ProducerSend
    \/ SendLock(1)
    \/ SendPush(1)
    \/ SendNotify(1)
    \/ ProducerDrop
    \/ DropDecrement(1)
    \/ DropNotify(1)
    \/ ConsumerRecv
    \/ RecvLock
    \/ RecvPop
    \/ RecvSwap
    \/ RecvReturnSome
    \/ RecvEos
    \/ RecvReturnNone
    \/ RecvWait
    \/ SpuriousWake
    \/ RecvRelock

\* Both threads of the test keep running: each goes through its program and
\* through the operation it is in.
ProducerSpec ==
    /\ Init
    /\ [][ProducerNext]_vars
    /\ SF_vars(ProducerSend \/ ProducerDrop)
    /\ WF_vars(ConsumerRecv)
    /\ SF_vars(SenderProgress(1))
    /\ SF_vars(ReceiverProgress)

\* ------------------------------------------- Iterator for Receiver as a program

\* for val in rx { ... }: next() is recv(), and the loop calls it until it
\* returns None.
IterRecv ==
    /\ EosCount(received) = 0
    /\ (RecvFast \/ RecvCall)

IterNext ==
    \/ \E t \in Threads : SenderStep(t)
    \/ IterRecv
    \/ RecvLock
    \/ RecvPop
    \/ RecvSwap
    \/ RecvReturnSome
    \/ RecvEos
    \/ RecvReturnNone
    \/ RecvWait
    \/ SpuriousWake
    \/ RecvRelock

\* The loop keeps running: the thread calls next() again after each item.
IterSpec ==
    /\ Init
    /\ [][IterNext]_vars
    /\ Fairness
    /\ WF_vars(IterRecv)

\* The items the loop body has seen, in order.
Yielded == Flatten(received)

\* next() has returned None: the loop is over.
Terminated == EosCount(received) >= 1

\* ------------------------------------------------------ the audited channel

\* channel(), with the thread of each push recorded.
OrderInit ==
    /\ channel
    /\ audit = Audit({"pusher"})

\* The Receiver lives on: what it returns is what the order is about.
OrderSpec == OrderInit /\ [][RecvLoopNext]_vars

\* channel(), with the handles ever created counted.
CountInit ==
    /\ channel
    /\ audit = Audit({"created"})

\* The sender threads of a channel whose handles are counted make a bounded
\* number of clones.
CountSenderStep(t) ==
    \/ SendCalls < MaxSends /\ SendCall(t)
    \/ SendLock(t)
    \/ SendPush(t)
    \/ SendNotify(t)
    \/ /\ audit.created + Cardinality({u \in Threads : CloneInProgress(u)})
            < MaxCreated
       /\ CloneLock(t)
    \/ CloneIncrement(t)
    \/ CloneReturn(t)
    \/ DropLock(t)
    \/ DropDecrement(t)
    \/ DropNotify(t)

CountNext ==
    \/ \E t \in Threads : CountSenderStep(t)
    \/ ReceiverStep
    \/ RecvDrop

CountSpec == CountInit /\ [][CountNext]_vars

\* ------------------------------------------------------------------ claims

IsPrefix(p, q) == Len(p) <= Len(q) /\ SubSeq(q, 1, Len(p)) = p

RecvInProgress ==
    rpc \in {"lock", "loop", "swap", "ret_some", "ret_none", "parked", "woken"}

\* No handle exists, none is on its way out with the counter still counting
\* it, and none is on its way in.
NoSenderHandle ==
    /\ handles = 0
    /\ \A t \in Threads : tpc[t] \notin {"drop_locked", "clone_locked", "clone_ret"}

EosReturned == EosCount(received) >= 1

\* C1 (FIFO): the values recv has returned so far, in order, are a prefix of
\* the values pushed, in the order of the pushes: the batching never reorders,
\* skips or repeats a value.
C1_Fifo == IsPrefix(Flatten(received), sent)

\* Every value was received, the last of them before the send that pushed it
\* has notified.
C1_Witness ==
    /\ Len(sent) = MaxSends
    /\ Flatten(received) = sent
    /\ \E t \in Threads : tpc[t] = "send_notify"

\* C2 (end-of-stream only at count zero): recv is about to return None only
\* when live_senders is 0, the queue and the buffer are empty, every value
\* pushed has been returned, and no Sender handle exists.
C2_EosOnlyAtZero ==
    rpc = "ret_none" =>
        /\ senders = 0
        /\ queue = <<>>
        /\ buffer = <<>>
        /\ Flatten(received) = sent
        /\ NoSenderHandle
        /\ \A t \in Threads : ~SendInProgress(t)

\* recv is about to return None after values went through and clones came
\* and went.
C2_Witness ==
    /\ rpc = "ret_none"
    /\ Len(sent) >= 2

\* C3 (liveness after drop): once every Sender handle is dropped, a Receiver
\* that keeps calling recv gets every value sent and then end-of-stream, and
\* no call of recv stays blocked.
C3_LivenessAfterDrop ==
    (handles = 0) ~> (/\ rpc = "idle"
                      /\ EosReturned
                      /\ Flatten(received) = sent)

\* The last handle was dropped while the Receiver was parked, and the
\* Receiver then returned end-of-stream after the values sent.
C3_Witness ==
    /\ handles = 0
    /\ EosReturned
    /\ Len(sent) >= 1
    /\ Flatten(received) = sent

\* C4 (no lost wake-up): a recv in progress, parked or not, with the queue
\* non-empty or live_senders at 0, returns.
C4_NoLostWakeup ==
    (RecvInProgress /\ (queue # <<>> \/ senders = 0)) ~> (rpc = "idle")

\* The Receiver is parked and a send has pushed, or the last drop has
\* decremented, and the notify is still to come.
C4_Witness ==
    /\ rpc = "parked"
    /\ \/ queue # <<>> /\ \E t \in Threads : tpc[t] = "send_notify"
       \/ senders = 0 /\ \E t \in Threads : tpc[t] = "drop_notify"

\* C5 (no lost or duplicated message): with the lock free and the Receiver in
\* existence, the values pushed so far are the values returned, then the
\* buffer, then the queue.
C5_NoLossNoDup ==
    (lock = Unlocked /\ rpc # "dropped") =>
        sent = Flatten(received) \o buffer \o queue

\* Values returned, values in the buffer and a value in the queue, at once.
C5_Witness ==
    /\ lock = Unlocked
    /\ received # <<>>
    /\ buffer # <<>>
    /\ queue # <<>>

\* C6 (sender-count accounting): whenever no clone and no drop is in progress
\* live_senders is the number of Sender handles that exist; a channel nothing
\* was sent on has an empty queue and an empty buffer.
C6_SenderCount ==
    /\ (\A t \in Threads : ~CloneInProgress(t) /\ ~DropInProgress(t))
            => senders = handles
    /\ sent = <<>> => (queue = <<>> /\ buffer = <<>>)

\* Clones were made and a handle dropped; a send and a recv are under way.
C6_Witness ==
    /\ \A t \in Threads : ~CloneInProgress(t) /\ ~DropInProgress(t)
    /\ handles = 2
    /\ \E t \in Threads : SendInProgress(t)
    /\ RecvInProgress
    /\ Len(sent) >= 1

\* C7 (send never blocks): every send in progress returns, and a Receiver
\* that is parked or waking up does not hold the lock.
C7_SendNeverBlocks ==
    /\ \A t \in Threads : SendInProgress(t) ~> (tpc[t] = "idle")
    /\ [](rpc \in {"idle", "lock", "parked", "woken", "dropped"} => lock # RxThread)

\* A send waits for the lock while the Receiver holds it.
C7_Witness ==
    /\ lock = RxThread
    /\ \E t \in Threads : tpc[t] = "send_lock"

\* C8 (end-of-stream is permanent): once live_senders is 0 it stays 0 and
\* nothing is pushed; once recv has returned end-of-stream, every later
\* result is end-of-stream and the Receiver never parks.
C8_EosPermanent ==
    [][/\ senders = 0 => (senders' = 0 /\ sent' = sent)
       /\ EosReturned =>
            /\ received' # received => received' = Append(received, None)
            /\ rpc' # "parked"]_vars

\* A second end-of-stream was returned.
C8_Witness == EosCount(received) >= 2

\* C9 (send to a dropped Receiver): once the Receiver is dropped, every send
\* in progress returns; each push appends its value to the queue and changes
\* nothing else of the shared state; nothing is read; the queue holds, in
\* order, every value pushed since the drop; and the counter still counts
\* the handles.
C9_SendAfterReceiverDrop ==
    /\ \A t \in Threads : (rpc = "dropped" /\ SendInProgress(t)) ~> (tpc[t] = "idle")
    /\ [][rpc = "dropped" =>
            /\ rpc' = "dropped"
            /\ received' = received
            /\ buffer' = buffer
            /\ sent' # sent =>
                 /\ queue' = Append(queue, sent'[Len(sent')])
                 /\ senders' = senders
            /\ sent' = sent => queue' = queue]_vars
    /\ [](rpc = "dropped" =>
            LET n == Len(sent) - rxDropSent[1]
            IN  /\ Len(queue) >= n
                /\ SubSeq(queue, Len(queue) - n + 1, Len(queue))
                      = SubSeq(sent, rxDropSent[1] + 1, Len(sent))
                /\ (\A t \in Threads : ~CloneInProgress(t) /\ ~DropInProgress(t))
                      => senders = handles)

\* The Receiver was dropped, a send was then made and has returned, and a
\* clone or a drop has gone through since.
C9_Witness ==
    /\ rpc = "dropped"
    /\ Len(sent) > rxDropSent[1]
    /\ \A t \in Threads : tpc[t] = "idle"
    /\ handles = 2

\* C10 (the concurrent producer of tests::test_channel): under every
\* interleaving the results of the calls of recv made so far are the first
\* of Some(10), Some(12), Some(13), Some(14), None, and the five calls return.
C10_ProducerScenario ==
    /\ [](IsPrefix(Returned, Expected))
    /\ <>(Returned = Expected)

\* The five calls have returned.
C10_Witness == Returned = Expected

\* C11 (iteration exhaustion): the iterator yields a prefix of the values
\* pushed, in the order of the pushes; when next() returns None it has
\* yielded every value pushed, each once, as many items as sends, and None is
\* the last result; and once every Sender handle is dropped the loop ends.
C11_IterationExhaustion ==
    /\ [](IsPrefix(Yielded, sent))
    /\ [](Terminated =>
            /\ Yielded = sent
            /\ Len(Yielded) = Len(sent)
            /\ received = [i \in 1..Len(sent) |-> Some(sent[i])] \o <<None>>)
    /\ [][Terminated => (received' = received /\ sent' = sent)]_vars
    /\ (handles = 0) ~> Terminated

\* The loop has ended after it yielded every value of a channel that clones
\* sent on.
C11_Witness ==
    /\ Terminated
    /\ rpc = "idle"
    /\ Len(Yielded) = MaxSends

\* C12 (recv waits only on an empty queue with a sender left): the Receiver
\* parks only from the head of the loop, holding the lock, with the queue
\* empty and live_senders above 0, the first time and after every wake-up;
\* a call of recv under way with the queue non-empty finds it non-empty when
\* it pops, so it returns a value without waiting; a call under way with
\* live_senders at 0 never parks, and at the head of the loop with an empty
\* queue it can only return end-of-stream.
C12_WaitOnlyWhenEmpty ==
    /\ [][(rpc' = "parked" /\ rpc # "parked") =>
            /\ rpc = "loop"
            /\ lock = RxThread
            /\ queue = <<>>
            /\ senders > 0]_vars
    /\ [][(rpc \in {"lock", "loop"} /\ queue # <<>>) =>
            /\ rpc' # "parked"
            /\ \/ queue' # <<>>
               \/ rpc' = "swap" /\ value' = Some(Head(queue))]_vars
    /\ [][(rpc \in {"lock", "loop"} /\ senders = 0) =>
            /\ senders' = 0
            /\ rpc' \in {"lock", "loop", "swap", "ret_none"}]_vars
    /\ [](rpc = "loop" /\ queue = <<>> /\ senders = 0 =>
            ENABLED RecvEos /\ ~ENABLED RecvWait)
    /\ [](rpc = "loop" /\ queue = <<>> /\ senders # 0 =>
            ENABLED RecvWait /\ ~ENABLED RecvEos)

\* The only Sender was dropped with nothing sent, and recv is about to return
\* end-of-stream before the drop has notified.
C12_Witness ==
    /\ rpc = "ret_none"
    /\ sent = <<>>
    /\ received = <<>>
    /\ \A t \in Threads : tpc[t] = "drop_notify" => is_last[t]
    /\ \E t \in Threads : tpc[t] = "drop_notify"

\* Where a thread is between taking the mutex and releasing it.
TxInCriticalSection(t) == tpc[t] \in {"send_locked", "clone_locked", "drop_locked"}
RxInCriticalSection == rpc \in {"loop", "swap", "ret_some", "ret_none"}

\* C13 (lock discipline): at most one thread is inside a critical section,
\* and it is the owner of the mutex; a parked Receiver does not own it; every
\* step that writes the queue or live_senders, the swap with the buffer
\* included, and every step that reads them (the pop, the end-of-stream
\* check, the decision to wait, the is_last of drop) is taken by the owner.
C13_LockDiscipline ==
    /\ [](Cardinality({t \in Threads : TxInCriticalSection(t)})
            + (IF RxInCriticalSection THEN 1 ELSE 0) <= 1)
    /\ [](/\ \A t \in Threads : TxInCriticalSection(t) <=> lock = TxThread(t)
          /\ RxInCriticalSection <=> lock = RxThread)
    /\ [](rpc \in {"parked", "woken"} => lock # RxThread)
    /\ [][(queue' # queue \/ senders' # senders) =>
            \/ lock = RxThread /\ rpc' # rpc /\ tpc' = tpc
            \/ \E t \in Threads :
                  /\ lock = TxThread(t)
                  /\ tpc'[t] # tpc[t]
                  /\ \A u \in Threads \ {t} : tpc'[u] = tpc[u]
                  /\ rpc' = rpc]_vars
    /\ [][(rpc = "loop" /\ rpc' # "loop") => lock = RxThread]_vars
    /\ [][(rpc = "swap" /\ rpc' # "swap") => lock = RxThread /\ lock' = RxThread]_vars
    /\ [][\A t \in Threads :
            (tpc[t] = "drop_locked" /\ tpc'[t] # "drop_locked") => lock = TxThread(t)]_vars

\* A send is inside its critical section while another send and a recv wait
\* for the mutex.
C13_Witness ==
    /\ \E t \in Threads :
          /\ tpc[t] = "send_locked"
          /\ lock = TxThread(t)
          /\ \E u \in Threads \ {t} : tpc[u] = "send_lock"
    /\ rpc = "lock"
    /\ queue # <<>>

\* The clones that have incremented the counter and not yet made the handle,
\* and the drops that have taken the handle away and not yet decremented.
ClonesReturning == Cardinality({t \in Threads : tpc[t] = "clone_ret"})
DropsDecrementing == Cardinality({t \in Threads : tpc[t] = "drop_locked"})

\* C14 (clone racing drop): at every moment live_senders counts the handles
\* that exist, those a clone has counted and is about to make, and those a
\* drop has taken and is about to discount; a handle comes into existence
\* only after its clone has incremented; so live_senders is 0 only when no
\* handle exists and no send or clone is under way, and a drop sees 0 only
\* if it removed the last handle, which at most one drop does.
C14_CloneDropRace ==
    /\ [](lock # Poisoned =>
            senders = handles + ClonesReturning + DropsDecrementing)
    /\ [](senders = 0 =>
            /\ handles = 0
            /\ \A t \in Threads : ~SendInProgress(t) /\ ~CloneInProgress(t))
    /\ [](\A t \in Threads : (tpc[t] = "drop_notify" /\ is_last[t]) =>
            /\ senders = 0
            /\ handles = 0
            /\ \A u \in Threads \ {t} : ~is_last[u] /\ tpc[u] # "drop_locked")
    /\ [][handles' > handles =>
            /\ handles' = handles + 1
            /\ senders' = senders
            /\ senders >= handles'
            /\ \E t \in Threads : tpc[t] = "clone_ret" /\ tpc'[t] = "idle"]_vars
    /\ [][(senders' = 0 /\ senders # 0) =>
            /\ handles = 0
            /\ \E t \in Threads : tpc[t] = "drop_locked" /\ is_last'[t]]_vars

\* A clone has incremented and has yet to make its handle while a drop in
\* another thread has decremented and has yet to return: the drop saw 2.
C14_Witness ==
    \E t \in Threads : \E u \in Threads \ {t} :
        /\ tpc[t] = "clone_ret"
        /\ tpc[u] = "drop_notify"
        /\ ~is_last[u]
        /\ handles = 1
        /\ senders = 2

\* C15 (batched drain): the buffer is empty wherever recv is on its slow
\* path before the swap; the pop takes q1 off a queue q1..qn, the swap moves
\* what is left, q2..qn, in order, into the buffer and leaves the queue
\* empty, recv returns q1 with the queue still empty, and as long as the
\* buffer is non-empty a call of recv returns its front and goes nowhere
\* near the lock.
C15_BatchedDrain ==
    /\ [](rpc \in {"lock", "loop", "swap", "parked", "woken", "ret_none"}
            => buffer = <<>>)
    /\ [][(rpc = "loop" /\ rpc' = "swap") =>
            /\ queue # <<>>
            /\ value' = Some(Head(queue))
            /\ queue' = Tail(queue)
            /\ buffer' = <<>>]_vars
    /\ [][(rpc = "swap" /\ rpc' # "swap") =>
            /\ rpc' = "ret_some"
            /\ buffer' = queue
            /\ queue' = <<>>
            /\ value' = value]_vars
    /\ [](rpc = "ret_some" => queue = <<>> /\ value # None)
    /\ [][(rpc = "ret_some" /\ rpc' # "ret_some") =>
            /\ rpc' = "idle"
            /\ received' = Append(received, value)
            /\ buffer' = buffer
            /\ queue' = <<>>]_vars
    /\ [][(rpc = "idle" /\ buffer # <<>>) =>
            /\ rpc' \in {"idle", "dropped"}
            /\ received' # received =>
                 /\ received' = Append(received, Some(Head(buffer)))
                 /\ buffer' = Tail(buffer)]_vars

\* recv found three values in the queue: it is about to return the first
\* and the other two are in the buffer.
C15_Witness ==
    /\ rpc = "ret_some"
    /\ value = Some(1)
    /\ buffer = <<2, 3>>
    /\ queue = <<>>

\* C16 (fast path frame): with the buffer non-empty a call of recv can
\* return whoever holds the mutex; the step that returns appends the front
\* of the buffer to the results, removes that element alone, and leaves the
\* queue, live_senders, the mutex and every sender thread as they were; the
\* Receiver does not leave the idle position, so it neither locks nor waits.
C16_FastPathFrame ==
    /\ [](rpc = "idle" /\ buffer # <<>> => ENABLED RecvFast)
    /\ [][(rpc = "idle" /\ buffer # <<>> /\ received' # received) =>
            /\ received' = Append(received, Some(Head(buffer)))
            /\ buffer' = Tail(buffer)
            /\ queue' = queue
            /\ senders' = senders
            /\ lock' = lock
            /\ rpc' = "idle"
            /\ value' = value
            /\ tpc' = tpc
            /\ handles' = handles
            /\ sent' = sent]_vars

\* Values were returned, another one is in the buffer, and a sender thread
\* holds the mutex: the next call of recv returns from the buffer all the same.
C16_Witness ==
    /\ rpc = "idle"
    /\ buffer # <<>>
    /\ Len(received) >= 2
    /\ \E t \in Threads : lock = TxThread(t)

\* C17 (signaling discipline): the notifies made by sends are as many as the
\* sends that have pushed and gone past their notify, so each send notifies
\* once, after its push; a step that notifies is the last step of a send or
\* of a drop whose decrement brought live_senders to 0, it counts one notify
\* and wakes the Receiver if it is parked; a drop that left live_senders
\* above 0 returns without a notify; no step of a clone or of the Receiver
\* notifies; drops have notified at most once, and exactly once when
\* live_senders is 0 and the last drop has returned.
C17_SignalingDiscipline ==
    /\ [](notifies.send
            = Len(sent) - Cardinality({t \in Threads : tpc[t] = "send_notify"}))
    /\ [](notifies.drop
            = IF senders = 0 /\ \A t \in Threads : ~is_last[t]
              THEN 1 ELSE 0)
    /\ [][notifies' # notifies =>
            \E t \in Threads :
                /\ tpc'[t] = "idle"
                /\ \A u \in Threads \ {t} : tpc'[u] = tpc[u]
                /\ rpc' = notify_one(rpc)
                /\ \/ /\ tpc[t] = "send_notify"
                      /\ notifies' = [notifies EXCEPT !.send = @ + 1]
                   \/ /\ tpc[t] = "drop_notify"
                      /\ is_last[t]
                      /\ senders = 0
                      /\ notifies' = [notifies EXCEPT !.drop = @ + 1]]_vars
    /\ [][\A t \in Threads :
            /\ (tpc[t] = "send_notify" /\ tpc'[t] # "send_notify")
                  => notifies'.send = notifies.send + 1
            /\ (tpc[t] = "drop_locked" /\ tpc'[t] = "drop_notify")
                  => is_last'[t] = (senders' = 0)
            /\ (tpc[t] = "drop_notify" /\ tpc'[t] # "drop_notify")
                  => notifies'.drop = notifies.drop + (IF is_last[t] THEN 1 ELSE 0)
            /\ (CloneInProgress(t) /\ tpc'[t] # tpc[t])
                  => notifies' = notifies]_vars
    /\ [][tpc' = tpc => notifies' = notifies]_vars

\* Every send has notified, a drop that was not the last has returned
\* without a notify and the last drop has notified.
C17_Witness ==
    /\ notifies = [send |-> MaxSends, drop |-> 1]
    /\ received # <<>>
    /\ \A t \in Threads : tpc[t] = "idle"

\* A reference receiver keeps no buffer: each recv pops one element of the
\* shared queue under the lock.  Its queue holds what the implementation
\* has in flight in recv, in the buffer and in the queue, in this order.
RefQueue == value \o buffer \o queue

\* The steps of the channel with the reference receiver, critical sections
\* taken as one step each: a push, a change of the counter, a recv that
\* returns the front of the queue, a recv that returns end-of-stream.
RefSend ==
    /\ \E v \in 1..(Len(sent) + 1) : RefQueue' = Append(RefQueue, v)
    /\ UNCHANGED <<senders, received>>

RefCount ==
    /\ senders' # senders
    /\ UNCHANGED <<RefQueue, received>>

RefRecvSome ==
    /\ RefQueue # <<>>
    /\ received' = Append(received, Some(Head(RefQueue)))
    /\ RefQueue' = Tail(RefQueue)
    /\ UNCHANGED senders

RefRecvNone ==
    /\ RefQueue = <<>>
    /\ senders = 0
    /\ received' = Append(received, None)
    /\ UNCHANGED <<RefQueue, senders>>

RefNext == RefSend \/ RefCount \/ RefRecvSome \/ RefRecvNone

\* C18 (batching is transparent): under the relation reference queue =
\* value in flight ++ buffer ++ queue, every step of the implementation is a
\* step of the reference or leaves the reference as it is, so every
\* sequence of results of the implementation is one of the reference; and
\* the implementation returns whenever the reference can: a Receiver that
\* keeps calling recv returns the next value while the reference queue is
\* non-empty, returns end-of-stream once it is empty with live_senders at
\* 0, and an idle Receiver can always start a call.
C18_BatchingTransparent ==
    /\ [][RefNext]_<<RefQueue, senders, received>>
    /\ [](rpc = "idle" /\ EosCount(received) < MaxEos => ENABLED (RecvFast \/ RecvCall))
    /\ \A k \in 0..MaxSends :
          (RefQueue # <<>> /\ Len(Flatten(received)) = k)
              ~> (Len(Flatten(received)) > k)
    /\ (RefQueue = <<>> /\ senders = 0) ~> EosReturned

\* Values were returned, one is in the buffer and one in the queue: the next
\* two calls of recv take one path each, and a send is still to notify.
C18_Witness ==
    /\ rpc = "idle"
    /\ received # <<>>
    /\ buffer # <<>>
    /\ queue # <<>>
    /\ \E t \in Threads : tpc[t] = "send_notify"

\* C19 (program order of one thread): the audit names the thread of every
\* push; of two values pushed by the same thread, which runs one send at a
\* time and so finished the first send before it started the second, recv
\* never returns the second unless it has returned the first before it.
C19_ProgramOrder ==
    /\ Len(audit.pusher) = Len(sent)
    /\ \A i, j \in 1..Len(sent) :
          (i < j /\ audit.pusher[i] = audit.pusher[j]) =>
              \A k \in 1..Len(Yielded) :
                  Yielded[k] = sent[j] =>
                      \E m \in 1..(k - 1) : Yielded[m] = sent[i]

\* A thread sent a value before and a value after a push of another thread;
\* the first was returned on the slow path and the other two came later,
\* through the buffer and the queue.
C19_Witness ==
    /\ Len(sent) = MaxSends
    /\ audit.pusher[1] = audit.pusher[MaxSends]
    /\ \E i \in 2..(MaxSends - 1) : audit.pusher[i] # audit.pusher[1]
    /\ received # <<>>
    /\ buffer # <<>>
    /\ queue # <<>>

\* The decrement of drop never finds the counter at 0, no thread panics and
\* the mutex is never poisoned, and the counter moves by one at a time,
\* down only from 1 or more.
NoUnderflow ==
    /\ [](\A t \in Threads : tpc[t] = "drop_locked" => senders >= 1)
    /\ [](lock # Poisoned /\ \A t \in Threads : tpc[t] # "panicked")
    /\ [][senders' # senders =>
            \/ senders' = senders + 1
            \/ senders >= 1 /\ senders' = senders - 1]_vars

\* C20 as stated (no counter underflow, and a counter bounded by the handles
\* ever created): live_senders is at least 1 whenever a drop decrements it,
\* so the decrement never wraps or panics, and live_senders never exceeds
\* the number of Sender handles ever created.
C20_AsStated ==
    /\ NoUnderflow
    /\ [](senders <= audit.created)

\* C20 (no counter underflow), amended: live_senders is at least 1 whenever
\* a drop decrements it, so the decrement never wraps or panics, and
\* live_senders never exceeds the number of Sender handles ever created
\* plus the number of clones that have incremented it and have yet to make
\* their handle.
C20_NoUnderflow ==
    /\ NoUnderflow
    /\ [](senders <= audit.created + ClonesReturning)

\* Every handle the bound allows was created, clones and drops went through
\* in some order, and the last drop brought the counter to 0.
C20_Witness ==
    /\ audit.created = MaxCreated
    /\ senders = 0
    /\ \A t \in Threads : tpc[t] = "idle"

====
